---- MODULE Spec2Model ----
(***************************************************************************)
(* FP-Growth (src/fpgrowth.py): the FP-tree (FPNode, FPTree), the          *)
(* projection of a conditional tree (project) and the recursive search     *)
(* (fp_search), as a state machine.                                        *)
(*                                                                         *)
(* Python objects live in one shared heap: a node is its index in `heap`,  *)
(* a tree its index in `trees`.  A reference that is None is NULL.  The    *)
(* generator fp_search is a stack of frames, one per active call; each     *)
(* step of the search handles one iteration of the loop of the innermost   *)
(* call, or returns from it.                                               *)
(***************************************************************************)
EXTENDS Integers, Sequences, FiniteSets, TLC

\* Number of distinct items; the items are the integers 0 .. NItems-1.
NItems == 3
\* Largest number of transactions inserted into the initial tree.
MaxTrans == 2
\* Largest support threshold tried.
MaxEps == 2
\* Number of two-item transactions <<k, k-1>>, written against the global
\* order of the items, that the searched trees may also hold.
NSwapped == 1

Items == 0 .. (NItems - 1)
\* No call of fp_search is nested deeper than this in the model.
MaxDepth == NItems + 2

\* Python's None as the item and the support of a root node.
None == -1
\* Python's None as a reference to a node.
NULL == 0

VARIABLES
    heap,          \* every FPNode ever created, in creation order
    trees,         \* every FPTree ever created: root and hyperlinks
    transactions,  \* the transactions inserted so far (TRANSACTIONS)
    phase,         \* "build", "search" or "done"
    epsilon,       \* the threshold of the running search
    stack,         \* the active calls of fp_search, outermost first
    emitted        \* what the search has yielded so far, in order

vars == <<heap, trees, transactions, phase, epsilon, stack, emitted>>

---------------------------------------------------------------------------
\* Sequences

RECURSIVE SumSeq(_)
SumSeq(s) == IF s = <<>> THEN 0 ELSE Head(s) + SumSeq(Tail(s))

RECURSIVE Reverse(_)
Reverse(s) == IF s = <<>> THEN <<>> ELSE Append(Reverse(Tail(s)), Head(s))

Range(s) == {s[k] : k \in DOMAIN s}

Last(s) == s[Len(s)]

Front(s) == SubSeq(s, 1, Len(s) - 1)

InSeq(x, s) == \E k \in DOMAIN s : s[k] = x

\* Op applied to v, with v evaluated once.
Apply(Op(_), v) == CHOOSE r \in {Op(x) : x \in {v}} : TRUE

---------------------------------------------------------------------------
\* FPNode

\* FPNode.__init__
FPNode(tree, item, support) ==
    [tree |-> tree, item |-> item, support |-> support,
     parent |-> NULL, children |-> <<>>, link |-> NULL]

\* FPNode.add: child becomes a child of node p unless p has one for the item.
Add(h, p, child) ==
    IF h[child].item \notin DOMAIN h[p].children
    THEN [h EXCEPT ![p].children = (h[child].item :> child) @@ @,
                   ![child].parent = p]
    ELSE h

\* FPNode.search
Search(h, n, item) ==
    IF item \in DOMAIN h[n].children THEN h[n].children[item] ELSE NULL

\* An increment that is lost.
IncrementLost(h, n) == h

\* FPNode.increment_node_support
IncrementNodeSupport(h, n) == [h EXCEPT ![n].support = @ + 1]

\* FPNode.root
IsRoot(h, n) == h[n].item = None /\ h[n].support = None

---------------------------------------------------------------------------
\* FPTree.  A world w is the pair of the heap and the trees.

\* FPTree.__init__: the new tree is the last of w.trees.
NewTree(w) ==
    [heap  |-> Append(w.heap, FPNode(Len(w.trees) + 1, None, None)),
     trees |-> Append(w.trees, [root |-> Len(w.heap) + 1, hyperlinks |-> <<>>])]

\* Position of an item among the keys of the dict hyperlinks, 0 if absent.
RouteOf(hl, item) ==
    IF \E k \in DOMAIN hl : hl[k].item = item
    THEN CHOOSE k \in DOMAIN hl : hl[k].item = item
    ELSE 0

\* The recorded tail left where it was.
TailKept(route, point) == route.tail

\* The tail recorded for an item once node point is appended to its route.
NewTail(route, point) == point

\* FPTree.update_route
UpdateRoute(w, t, point) ==
    LET hl   == w.trees[t].hyperlinks
        item == w.heap[point].item
        k    == RouteOf(hl, item)
    IN  IF k # 0
        THEN [w EXCEPT !.heap[hl[k].tail].link = point,
                       !.trees[t].hyperlinks[k] =
                           [item |-> item, head |-> hl[k].head,
                            tail |-> NewTail(hl[k], point)]]
        ELSE [w EXCEPT !.trees[t].hyperlinks =
                           Append(@, [item |-> item, head |-> point, tail |-> point])]

\* A node created by add_transaction starts with FPNode's default support.
DefaultSupport == 1

\* The body of the loop of FPTree.add_transaction for one item: the world
\* and the node the loop is at afterwards.
AddItem(w, t, point, item) ==
    LET next_point == Search(w.heap, point, item)
    IN  IF next_point # NULL
        THEN [w     |-> [w EXCEPT !.heap = IncrementNodeSupport(@, next_point)],
              point |-> next_point]
        ELSE LET id == Len(w.heap) + 1
                 w1 == [w EXCEPT !.heap = Append(@, FPNode(t, item, DefaultSupport))]
                 w2 == [w1 EXCEPT !.heap = Add(@, point, id)]
             IN  [w |-> UpdateRoute(w2, t, id), point |-> id]

\* The loop of FPTree.add_transaction, from node point on.
RECURSIVE AddItems(_, _, _, _)
AddItems(w, t, point, itemset) ==
    IF itemset = <<>> THEN w
    ELSE Apply(LAMBDA s : AddItems(s.w, t, s.point, Tail(itemset)),
               AddItem(w, t, point, Head(itemset)))

\* FPTree.add_transaction
AddTransactionTo(w, t, itemset) == AddItems(w, t, w.trees[t].root, itemset)

\* The while loop of FPTree.nodes from a node on: the nodes it yields.
RECURSIVE Follow(_, _)
Follow(h, node) ==
    IF node = NULL THEN <<>> ELSE <<node>> \o Follow(h, h[node].link)

\* FPTree.nodes: the nodes of an item of the index, by following link.
Nodes(w, t, item) ==
    LET hl == w.trees[t].hyperlinks
    IN  Follow(w.heap, hl[RouteOf(hl, item)].head)

\* The path built leaf first: path = path + [node].
RECURSIVE PathLeafFirst(_, _)
PathLeafFirst(h, node) ==
    IF node = NULL \/ IsRoot(h, node) THEN <<>>
    ELSE <<node>> \o PathLeafFirst(h, h[node].parent)

\* The inner while loop of FPTree.prefix_paths: the path down to a node.
RECURSIVE PathTo(_, _)
PathTo(h, node) ==
    IF node = NULL \/ IsRoot(h, node) THEN <<>>
    ELSE Append(PathTo(h, h[node].parent), node)

\* FPTree.prefix_paths
PrefixPaths(w, t, item) ==
    LET ns == Nodes(w, t, item)
    IN  [k \in DOMAIN ns |-> PathTo(w.heap, ns[k])]

\* sum(n.support for n in nodes) in fp_search
TreeSupport(w, t, item) ==
    LET ns == Nodes(w, t, item)
    IN  SumSeq([k \in DOMAIN ns |-> w.heap[ns[k]].support])

---------------------------------------------------------------------------
\* project

\* bool(seed): seed starts as False, which Python equates with 0.
Bool(seed) == seed # 0

\* The seed after the test at the top of the loop over the paths.
NextSeed(h, seed, path) == IF ~Bool(seed) THEN h[Last(path)].item ELSE seed

\* Every node of the new tree starts with the support of the node it mirrors.
InitialSupportCopied(h, node, seed) == h[node].support

\* The support a node of the new tree is created with.
InitialSupport(h, node, seed) ==
    IF h[node].item = seed THEN h[node].support ELSE 0

\* The body of the inner loop of the first pass for one node of a path: the
\* world and the node of the new tree nt the loop is at afterwards.
InsertNode(w, nt, seed, current_node, node) ==
    LET item  == w.heap[node].item
        found == Search(w.heap, current_node, item)
    IN  IF found = NULL
        THEN LET id == Len(w.heap) + 1
                 w1 == [w EXCEPT !.heap = Append(@,
                           FPNode(nt, item, InitialSupport(w.heap, node, seed)))]
                 w2 == [w1 EXCEPT !.heap = Add(@, current_node, id)]
             IN  [w |-> UpdateRoute(w2, nt, id), point |-> id]
        ELSE [w |-> w, point |-> found]

\* The inner loop of the first pass: one path mirrored into the new tree.
RECURSIVE InsertPath(_, _, _, _, _)
InsertPath(w, nt, seed, current_node, path) ==
    IF path = <<>> THEN w
    ELSE Apply(LAMBDA s : InsertPath(s.w, nt, seed, s.point, Tail(path)),
               InsertNode(w, nt, seed, current_node, Head(path)))

\* The outer loop of the first pass: all paths; the result carries the seed.
RECURSIVE InsertPaths(_, _, _, _)
InsertPaths(w, nt, seed, paths) ==
    IF paths = <<>> THEN [w |-> w, seed |-> seed]
    ELSE Apply(LAMBDA s :
                   Apply(LAMBDA v : InsertPaths(v, nt, s, Tail(paths)),
                         InsertPath(w, nt, s, w.trees[nt].root, Head(paths))),
               NextSeed(w.heap, seed, Head(paths)))

\* The gainers without the node next to the root: path[1:-1].
GainersBelowTop(path) == Reverse(SubSeq(path, 2, Len(path) - 1))

\* The nodes of a path that gain the support of its last node.
Gainers(path) == Reverse(Front(path))

\* node.support += support for the nodes of one path, in order.
RECURSIVE AddSupport(_, _, _)
AddSupport(h, nodes, support) ==
    IF nodes = <<>> THEN h
    ELSE AddSupport([h EXCEPT ![Head(nodes)].support = @ + support],
                    Tail(nodes), support)

\* The second pass of project over the prefix paths of the seed.
RECURSIVE Accumulate(_, _)
Accumulate(h, paths) ==
    IF paths = <<>> THEN h
    ELSE Apply(LAMBDA g : Accumulate(g, Tail(paths)),
               AddSupport(h, Gainers(Head(paths)), h[Last(Head(paths))].support))

\* The second pass run over the paths project was given.
GivenPaths(w, nt, seed, paths) == paths

\* The paths the second pass runs over: those of the seed in the new tree nt,
\* not the paths project was given.
SecondPassPaths(w, nt, seed, paths) == PrefixPaths(w, nt, seed)

\* project: the new tree is the last of the result's trees.  The local
\* itemset is written and never read.
Project(w, paths) ==
    LET nt == Len(w.trees) + 1
    IN  Apply(LAMBDA r : [r.w EXCEPT !.heap =
                            Accumulate(@, SecondPassPaths(r.w, nt, r.seed, paths))],
              InsertPaths(NewTree(w), nt, 0, paths))

---------------------------------------------------------------------------
\* The inputs

RECURSIVE Ascending(_)
Ascending(s) ==
    Len(s) <= 1 \/ (s[1] < s[2] /\ Ascending(Tail(s)))

\* Duplicate-free sequences over a set of items, in any order: a transaction
\* is a frozenset (clean_line, first_scan), iterated in the set's own order.
DuplicateFree(S) ==
    {s \in UNION {[1 .. n -> S] : n \in 0 .. Cardinality(S)} :
        \A a, b \in DOMAIN s : a # b => s[a] # s[b]}

\* Transactions written in the one global order of the items.
OrderedTransactions == {s \in DuplicateFree(Items) : Ascending(s)}

\* Transactions in any order of their items.
AnyOrderTransactions == DuplicateFree(Items)

\* The ordered transactions and a few that are written against the order.
MixedTransactions ==
    OrderedTransactions \cup {<<k, k - 1>> : k \in 1 .. NSwapped}

---------------------------------------------------------------------------
\* The program

World == [heap |-> heap, trees |-> trees]

\* START_TREE = FPTree()
Init ==
    /\ heap = NewTree([heap |-> <<>>, trees |-> <<>>]).heap
    /\ trees = NewTree([heap |-> <<>>, trees |-> <<>>]).trees
    /\ transactions = <<>>
    /\ phase = "build"
    /\ epsilon = 0
    /\ stack = <<>>
    /\ emitted = <<>>

\* START_TREE.add_transaction(transaction)
Insert(t) ==
    /\ phase = "build"
    /\ Len(transactions) < MaxTrans
    /\ \E w \in {AddTransactionTo(World, 1, t)} :
          heap' = w.heap /\ trees' = w.trees
    /\ transactions' = Append(transactions, t)
    /\ UNCHANGED <<phase, epsilon, stack, emitted>>

AddTransaction == \E t \in OrderedTransactions : Insert(t)

AddTransactionAnyOrder == \E t \in AnyOrderTransactions : Insert(t)

AddTransactionMixed == \E t \in MixedTransactions : Insert(t)

\* fp_search(START_TREE, EPSILON): the outermost call, suffix = [].
StartSearch ==
    /\ phase = "build"
    /\ \E e \in 0 .. MaxEps : epsilon' = e
    /\ phase' = "search"
    /\ stack' = <<[tree |-> 1, suffix |-> <<>>, idx |-> 1]>>
    /\ UNCHANGED <<heap, trees, transactions, emitted>>

Top == stack[Len(stack)]

\* The item of the current iteration of tree.items() in the innermost call.
InLoop ==
    /\ phase = "search"
    /\ Top.idx <= Len(trees[Top.tree].hyperlinks)

CurItem == trees[Top.tree].hyperlinks[Top.idx].item

\* The threshold test with > for >=.
FrequentStrict(tree_support) == tree_support > epsilon

\* tree_support >= epsilon
Frequent(tree_support) == tree_support >= epsilon

\* The test on the suffix left out.
SuffixIgnored(item, suffix) == TRUE

\* item not in suffix
NotInSuffix(item, suffix) == ~InSeq(item, suffix)

\* The item put at the end of the suffix.
FreqItemsAppended(item, suffix) == suffix \o <<item>>

\* The item left out of the itemset.
FreqItemsUnchanged(item, suffix) == suffix

\* freq_items = [item] + suffix
FreqItems(item, suffix) == <<item>> \o suffix

Advance == stack' = [stack EXCEPT ![Len(stack)].idx = @ + 1]

\* The branch taken: yield the itemset, project, enter the recursive call.
Recurse ==
    /\ InLoop
    /\ Len(stack) < MaxDepth
    /\ Frequent(TreeSupport(World, Top.tree, CurItem))
    /\ NotInSuffix(CurItem, Top.suffix)
    /\ \E paths \in {PrefixPaths(World, Top.tree, CurItem)} :
       \E w \in {Project(World, paths)} :
       LET freq_items == FreqItems(CurItem, Top.suffix)
       IN  /\ emitted' = Append(emitted,
                  [items |-> freq_items,
                   support |-> TreeSupport(World, Top.tree, CurItem)])
           /\ heap' = w.heap
           /\ trees' = w.trees
           /\ stack' = Append(stack,
                  [tree |-> Len(w.trees), suffix |-> freq_items, idx |-> 1])
    /\ UNCHANGED <<transactions, phase, epsilon>>

\* The else branch, taken because the first test fails.
SkipInfrequent ==
    /\ InLoop
    /\ ~Frequent(TreeSupport(World, Top.tree, CurItem))
    /\ Advance
    /\ UNCHANGED <<heap, trees, transactions, phase, epsilon, emitted>>

\* The else branch, taken because the second test fails.
SkipInSuffix ==
    /\ InLoop
    /\ Frequent(TreeSupport(World, Top.tree, CurItem))
    /\ ~NotInSuffix(CurItem, Top.suffix)
    /\ Advance
    /\ UNCHANGED <<heap, trees, transactions, phase, epsilon, emitted>>

\* The loop of the innermost call is exhausted: back in the caller's loop.
Return ==
    /\ phase = "search"
    /\ Top.idx > Len(trees[Top.tree].hyperlinks)
    /\ IF Len(stack) = 1
       THEN stack' = <<>> /\ phase' = "done"
       ELSE /\ stack' = [Front(stack) EXCEPT ![Len(stack) - 1].idx = @ + 1]
            /\ phase' = phase
    /\ UNCHANGED <<heap, trees, transactions, epsilon, emitted>>

SearchStep == Recurse \/ SkipInfrequent \/ SkipInSuffix \/ Return

Next == AddTransaction \/ StartSearch \/ Recurse \/ SkipInfrequent
           \/ SkipInSuffix \/ Return

NextMixed == AddTransactionMixed \/ StartSearch \/ Recurse
                \/ SkipInfrequent \/ SkipInSuffix \/ Return

\* Ordered transactions, then a search.
Spec == Init /\ [][Next]_vars

\* Transactions in any order; the tree is built and not searched.
SpecBuild == Init /\ [][AddTransactionAnyOrder]_vars

\* Transactions of which some are written against the order, then a search.
SpecMixed == Init /\ [][NextMixed]_vars

\* A step of the search can be taken: the guards of SearchStep.
SearchEnabled ==
    /\ phase = "search"
    /\ \/ ~InLoop
       \/ ~Frequent(TreeSupport(World, Top.tree, CurItem))
       \/ ~NotInSuffix(CurItem, Top.suffix)
       \/ Len(stack) < MaxDepth

\* The consumer keeps asking the generator for its next result: weak
\* fairness of SearchStep, WF_vars(SearchStep), with the condition under
\* which SearchStep is enabled written out.
Exhausted == ([]<>(~SearchEnabled)) \/ ([]<><<SearchStep>>_vars)

SpecExhaust == Init /\ [][NextMixed]_vars /\ Exhausted

---------------------------------------------------------------------------
\* What the properties speak of

\* The items in the index of tree t, and the index as a set.
IndexItems(t) == {trees[t].hyperlinks[k].item : k \in DOMAIN trees[t].hyperlinks}

\* Brute force: the number of inserted transactions that contain all of S.
Count(S) ==
    Cardinality({k \in DOMAIN transactions : S \subseteq Range(transactions[k])})

\* The global item order holds in every inserted transaction.
WellFormed == \A k \in DOMAIN transactions : Ascending(transactions[k])

\* The (itemset, support) pairs yielded so far, itemsets as sets.
EmittedPairs ==
    {<<Range(emitted[k].items), emitted[k].support>> : k \in DOMAIN emitted}

\* The pairs brute-force counting gives for the threshold.
FrequentPairs ==
    {<<S, Count(S)>> : S \in {X \in SUBSET Items :
                                X # {} /\ Count(X) >= 1 /\ Count(X) >= epsilon}}

\* The non-root nodes of tree t.
NodesOf(t) == {n \in DOMAIN heap : heap[n].tree = t /\ ~IsRoot(heap, n)}

RECURSIVE SupportOver(_)
SupportOver(ns) ==
    IF ns = {} THEN 0
    ELSE LET n == CHOOSE x \in ns : TRUE
         IN  heap[n].support + SupportOver(ns \ {n})

---------------------------------------------------------------------------
\* C1: once the search on a tree of ordered, duplicate-free transactions is
\* exhausted, no itemset was yielded twice and the yielded (itemset, support)
\* pairs are exactly the non-empty itemsets contained in some transaction
\* whose brute-force count reaches epsilon, each with that count.
C1_ExactFrequentItemsets ==
    phase = "done" =>
        /\ \A a, b \in DOMAIN emitted :
              a # b => Range(emitted[a].items) # Range(emitted[b].items)
        /\ \A a \in DOMAIN emitted :
              Cardinality(Range(emitted[a].items)) = Len(emitted[a].items)
        /\ EmittedPairs = FrequentPairs

\* A finished search that yielded a two-item set and pruned another set.
C1_Witness ==
    /\ phase = "done"
    /\ epsilon = 2
    /\ \E a \in DOMAIN emitted : Len(emitted[a].items) = 2
    /\ \E S \in SUBSET Items : Count(S) = 1

\* C2: in the conditional tree of an item i of the initial tree, every other
\* item j has, summed over its linked list, the number of transactions that
\* contain both i and j.
C2_ProjectionCounts ==
    \A f \in DOMAIN stack :
        Len(stack[f].suffix) = 1 =>
            \A j \in IndexItems(stack[f].tree) \ {stack[f].suffix[1]} :
                TreeSupport(World, stack[f].tree, j) = Count({stack[f].suffix[1], j})

\* A conditional tree where an ancestor item gathers support from two seed
\* nodes on paths of different lengths.
C2_Witness ==
    \E f \in DOMAIN stack :
        /\ Len(stack[f].suffix) = 1
        /\ Len(Nodes(World, stack[f].tree, stack[f].suffix[1])) = 2
        /\ \E j \in IndexItems(stack[f].tree) \ {stack[f].suffix[1]} :
              TreeSupport(World, stack[f].tree, j) = 2

\* C3: in the initial tree, whatever the order of the items in each
\* transaction, an item's supports summed along its linked list are the number
\* of transactions that contain the item; an item in no transaction has no
\* list.
C3_ItemSupportConserved ==
    \A i \in Items :
        IF i \in IndexItems(1)
        THEN TreeSupport(World, 1, i) = Count({i})
        ELSE Count({i}) = 0

\* An item on two nodes, one of them shared by two transactions, in a tree
\* whose transactions disagree on the order.
C3_Witness ==
    /\ ~WellFormed
    /\ \E i \in IndexItems(1) :
          /\ Len(Nodes(World, 1, i)) = 2
          /\ Count({i}) = 2

\* C4: a search with epsilon > 0 that is run to exhaustion ends.
C4_SearchTerminates ==
    (phase = "search" /\ epsilon > 0) ~> (phase = "done")

\* An exhausted search with epsilon > 0 that yielded a two-item set from a
\* tree whose transactions disagree on the order.
C4_Witness ==
    /\ phase = "done"
    /\ epsilon > 0
    /\ ~WellFormed
    /\ \E a \in DOMAIN emitted : Len(emitted[a].items) = 2

\* C5: an itemset [x] + S with S not empty is yielded only after S.
C5_SuffixEmittedFirst ==
    \A k \in DOMAIN emitted :
        Len(emitted[k].items) > 1 =>
            \E m \in 1 .. (k - 1) : emitted[m].items = Tail(emitted[k].items)

\* A three-item set has been yielded.
C5_Witness ==
    \E k \in DOMAIN emitted : Len(emitted[k].items) = 3

\* The nodes reached from a node by link, at most fuel of them.
RECURSIVE Chain(_, _)
Chain(node, fuel) ==
    IF node = NULL \/ fuel = 0 THEN <<>>
    ELSE <<node>> \o Chain(heap[node].link, fuel - 1)

\* C6: in every tree, the list from the recorded head of an item holds every
\* non-root node of the tree with that item once and no other node, in the
\* order of creation, and ends at the recorded tail, whose link is empty; no
\* node carries an item that is not in the index.
C6_LinkedListExact ==
    \A t \in DOMAIN trees :
      LET ns == NodesOf(t)
      IN
        /\ \A n \in ns : heap[n].item \in IndexItems(t)
        /\ \A k \in DOMAIN trees[t].hyperlinks :
              LET r == trees[t].hyperlinks[k]
                  c == Chain(r.head, Len(heap) + 1)
              IN  /\ Range(c) = {n \in ns : heap[n].item = r.item}
                  /\ \A a, b \in DOMAIN c : a < b => c[a] < c[b]
                  /\ c # <<>>
                  /\ Last(c) = r.tail
                  /\ heap[r.tail].link = NULL
                  /\ \A j \in DOMAIN trees[t].hyperlinks :
                        j # k => trees[t].hyperlinks[j].item # r.item

\* A conditional tree with two nodes on one item's list, built from an
\* initial tree that has such a list too.
C6_Witness ==
    /\ \E i \in IndexItems(1) : Len(Nodes(World, 1, i)) = 2
    /\ \E t \in DOMAIN trees :
          t > 1 /\ \E i \in IndexItems(t) : Len(Nodes(World, t, i)) = 2

\* C7 as stated: no tree handed to a call of fp_search has in its index an
\* item of that call's suffix.
C7_GuardNeverRejects ==
    WellFormed =>
        \A f \in DOMAIN stack :
            IndexItems(stack[f].tree) \cap Range(stack[f].suffix) = {}

\* C7 as the code has it: the tree of the outermost call has no item of the
\* (empty) suffix; the tree of a recursive call has exactly one, the first
\* item of the suffix, which is the item the tree was projected on.
C7_GuardRejectsOnlySeed ==
    WellFormed =>
        \A f \in DOMAIN stack :
            IndexItems(stack[f].tree) \cap Range(stack[f].suffix) =
                IF stack[f].suffix = <<>> THEN {} ELSE {Head(stack[f].suffix)}

\* A call two levels down whose loop has passed, and skipped, the seed item.
C7_Witness ==
    /\ WellFormed
    /\ \E f \in DOMAIN stack :
          /\ Len(stack[f].suffix) = 2
          /\ stack[f].idx > RouteOf(trees[stack[f].tree].hyperlinks,
                                    Head(stack[f].suffix))

\* C8 as stated: a conditional tree has strictly fewer items in its index
\* than the tree it was projected from.
C8_StrictlyFewerItems ==
    \A f \in DOMAIN stack :
        f > 1 => Cardinality(IndexItems(stack[f].tree))
                    < Cardinality(IndexItems(stack[f - 1].tree))

\* The items of the index of a call's tree that are not in the call's suffix.
OpenItems(f) == IndexItems(stack[f].tree) \ Range(stack[f].suffix)

\* C8 as the code has it: the index of a conditional tree is a subset of the
\* index of the tree it was projected from, and has strictly fewer items
\* outside the suffix of the call it is handed to than its source has outside
\* the suffix of the calling call.
C8_FewerOpenItems ==
    \A f \in DOMAIN stack :
        f > 1 => /\ IndexItems(stack[f].tree) \subseteq IndexItems(stack[f - 1].tree)
                 /\ Cardinality(OpenItems(f)) < Cardinality(OpenItems(f - 1))

\* A conditional tree with as many items as its source, two or more.
C8_Witness ==
    \E f \in DOMAIN stack :
        /\ f > 1
        /\ IndexItems(stack[f].tree) = IndexItems(stack[f - 1].tree)
        /\ Cardinality(IndexItems(stack[f].tree)) >= 2

\* The nodes of item s in the subtree of node n.
SeedsBelow(n, s) ==
    {m \in DOMAIN heap : heap[m].item = s /\ InSeq(n, PathTo(heap, m))}

\* C9: every non-root node of every tree has support >= 1, and in the
\* conditional tree of a call the support of a node of another item than the
\* seed is the sum of the supports of the seed's nodes in its subtree.
C9_SupportsPositive ==
    /\ \A t \in DOMAIN trees : \A n \in NodesOf(t) : heap[n].support >= 1
    /\ \A f \in DOMAIN stack :
          f > 1 =>
             \A n \in NodesOf(stack[f].tree) :
                heap[n].item # Head(stack[f].suffix) =>
                    heap[n].support = SupportOver(SeedsBelow(n, Head(stack[f].suffix)))

\* A conditional tree with a node that sums two seed nodes below it.
C9_Witness ==
    \E f \in DOMAIN stack :
        /\ f > 1
        /\ \E n \in NodesOf(stack[f].tree) :
              /\ heap[n].item # Head(stack[f].suffix)
              /\ Cardinality(SeedsBelow(n, Head(stack[f].suffix))) = 2
              /\ heap[n].support = 2

\* C10: no step of the search, project included, changes a node or a tree
\* that exists before the step: item, support, parent, children, link and the
\* item index stay as they are.
C10_SourceUnchanged ==
    [][phase = "search" =>
          /\ \A n \in DOMAIN heap : n \in DOMAIN heap' /\ heap'[n] = heap[n]
          /\ \A t \in DOMAIN trees : t \in DOMAIN trees' /\ trees'[t] = trees[t]]_vars

\* A projection of a conditional tree has been made.
C10_Witness ==
    /\ Len(stack) = 3
    /\ Len(trees) >= 4
    /\ Cardinality(NodesOf(Len(trees))) >= 2

====
